---------------------------- MODULE Spec2Model ----------------------------
(***************************************************************************)
(* Game-Pass-Database: the data-fusion pipeline (JSONMaker.compose_jsons), *)
(* the record store mnt/xbox/gp_new, the JSON editing UI (flask_for_json)  *)
(* and the catalog CRUD UI (flask_app), as one state machine; and the pure *)
(* SKU grouper as an operator checked under its own specification.         *)
(***************************************************************************)
EXTENDS Integers, Sequences, FiniteSets, TLC

VARIABLES
    row,          \* the catalog entry (GameData row): pid1.. slots, igdb, release
    records,      \* mnt/xbox/gp_new/<pid>.json : pid -> record (partial function)
    searchIndex,  \* mnt/xbox/gp_new/_search_index.json
    storeCache,   \* mnt/xbox/store_meta/<pid>.json (scraper cache)
    igdbCache,    \* mnt/xbox/igdb/<id>.json (retriever cache)
    pc,           \* position of the composing script
    jm,           \* the JSONMaker instance of the current run
    runInfo,      \* bookkeeping of the current run (writes, fetch outcomes)
    lastOp,       \* the last operation and its request/response
    budget,       \* remaining UI edits, catalog edits and compose runs
    gIn,          \* argument of the pure function under check (SkuGrouper:
                  \* insertion-ordered dict as <<sku, platforms>> pairs)
    gOut          \* its result

vars == <<row, records, searchIndex, storeCache, igdbCache, pc, jm, runInfo,
          lastOp, budget, gIn, gOut>>

mainVars == <<row, records, searchIndex, storeCache, igdbCache, pc, jm,
              runInfo, lastOp, budget>>

-----------------------------------------------------------------------------
(* Bounds *)

MaxEdits == 1
MaxRuns == 2
MaxGroupSkus == 3
MaxPasses == 2
MaxReleaseEntries == 2
MaxCandidates == 2
MaxEntrySkus == 2

-----------------------------------------------------------------------------
(* Values *)

Null == "null"

Skus == {"A", "B", "C"}

AllSkuNames == <<"A", "B", "C", "D", "E">>

\* Python's string order on the SKU identifiers used here
SkuOrd(s) == CHOOSE i \in 1..Len(AllSkuNames) : AllSkuNames[i] = s

IgdbIds == {"101", "202"}

IgdbName(id) == IF id = "101" THEN "Control" ELSE "Control Ultimate Edition"

RowRelease == "2019-08-27"

\* rows the CRUD UI can hold: pid1..pid3 slots (Null = empty slot)
PidSlotChoices ==
    { <<"A", Null, "B">>, <<"A", "C", "B">> }

Rows == [pid : PidSlotChoices, igdb : {"101"}, release : {RowRelease}]

InitialRow == [pid |-> <<"A", "C", "B">>, igdb |-> "101", release |-> RowRelease]

\* the storefront's product document of a SKU
\* ts.split("T")[0]
DatePart(ts) ==
    CASE ts = "2023-01-01T00:00:00Z" -> "2023-01-01"
      [] ts = "2023-03-01T08:00:00Z" -> "2023-03-01"
      [] ts = "2024-06-30T00:00:00Z" -> "2024-06-30"
      [] ts = "2019-08-27T00:00:00Z" -> "2019-08-27"
      [] OTHER -> ts

\* the product data the storefront page of a SKU carries; B's has no
\* releaseDate
RawStoreDoc(pid) ==
    [kind |-> "doc",
     releaseDate |-> IF pid = "B" THEN Null ELSE "2019-08-27T00:00:00Z",
     title |-> IF pid = "A" THEN "Control" ELSE "Control Ultimate Edition - Xbox",
     availableOn |-> IF pid = "A" THEN <<"PC", "XCloud">>
                     ELSE IF pid = "B" THEN <<"pc">>
                     ELSE <<"XboxSeriesX", "XCloud">>]

NoData == [kind |-> "none"]

SeqToSet(s) == {s[i] : i \in 1..Len(s)}

\* min(S)
Min(S) == CHOOSE x \in S : \A y \in S : x <= y

RECURSIVE FilterSeq(_, _)
FilterSeq(s, keep) ==
    IF s = <<>> THEN <<>>
    ELSE (IF Head(s) \in keep THEN <<Head(s)>> ELSE <<>>) \o FilterSeq(Tail(s), keep)


-----------------------------------------------------------------------------
(* SkuGrouper: JSONMaker.group_skus_by_platform *)

\* str.lower() on the platform names the storefront reports
Lower(p) ==
    CASE p \in {"PC", "pc", "Pc"} -> "pc"
      [] p \in {"XCloud", "xcloud", "XCLOUD"} -> "xcloud"
      [] p \in {"XboxSeriesX", "xboxseriesx"} -> "xboxseriesx"
      [] p \in {"Xbox", "xbox"} -> "xbox"
      [] OTHER -> p

\* variant: the streaming marker is compared before lowercasing
GroupKey_CaseSensitive(platforms) ==
    {Lower(platforms[i]) : i \in {j \in 1..Len(platforms) : platforms[j] # "xcloud"}}

\* frozenset(p.lower() for p in platforms if p.lower() != "xcloud")
GroupKey(platforms) ==
    {Lower(platforms[i]) : i \in 1..Len(platforms)} \ {"xcloud"}

\* the keys of the defaultdict, in first-insertion order
RECURSIVE KeysInOrder(_, _)
KeysInOrder(d, seen) ==
    IF d = <<>> THEN <<>>
    ELSE LET k == GroupKey(Head(d)[2])
         IN  IF k \in seen THEN KeysInOrder(Tail(d), seen)
             ELSE <<k>> \o KeysInOrder(Tail(d), seen \cup {k})

\* groups[key]: the SKUs appended under key, in insertion order
RECURSIVE GroupMembers(_, _)
GroupMembers(d, k) ==
    IF d = <<>> THEN <<>>
    ELSE (IF GroupKey(Head(d)[2]) = k THEN <<Head(d)[1]>> ELSE <<>>)
         \o GroupMembers(Tail(d), k)

RECURSIVE InsertSku(_, _)
InsertSku(x, s) ==
    IF s = <<>> THEN <<x>>
    ELSE IF SkuOrd(x) < SkuOrd(Head(s)) THEN <<x>> \o s
    ELSE <<Head(s)>> \o InsertSku(x, Tail(s))

\* sorted(group)
RECURSIVE SortedSkus(_)
SortedSkus(s) ==
    IF s = <<>> THEN <<>>
    ELSE InsertSku(s[Len(s)], SortedSkus(SubSeq(s, 1, Len(s) - 1)))

\* variant: the groups are ordered by their first inserted member
GroupSortKey_FirstInserted(g) == SkuOrd(g[1])

\* key=lambda x: sorted(x[1])[0]
GroupSortKey(g) == SkuOrd(SortedSkus(g)[1])

RECURSIVE InsertGroup(_, _)
InsertGroup(g, s) ==
    IF s = <<>> THEN <<g>>
    ELSE IF GroupSortKey(g) < GroupSortKey(Head(s)) THEN <<g>> \o s
    ELSE <<Head(s)>> \o InsertGroup(g, Tail(s))

\* sorted(groups.items(), key=...): stable
RECURSIVE SortedGroups(_)
SortedGroups(gs) ==
    IF gs = <<>> THEN <<>>
    ELSE InsertGroup(gs[Len(gs)], SortedGroups(SubSeq(gs, 1, Len(gs) - 1)))

\* d: the dict sku -> platform list, as its items in insertion order
group_skus_by_platform(d) ==
    LET keys == KeysInOrder(d, {})
        groups == [i \in 1..Len(keys) |-> GroupMembers(d, keys[i])]
        ordered == SortedGroups(groups)
    IN  [i \in 1..Len(ordered) |-> SortedSkus(ordered[i])]

-----------------------------------------------------------------------------
(* XboxStoreParser and IGDBParser, as far as the composed record needs *)

\* XboxStoreParser.get_release_date: computes the date part in a local and
\* ends without a return statement, so the call evaluates to None
get_release_date(store_data) ==
    LET release_date == IF store_data.releaseDate # Null
                        THEN DatePart(store_data.releaseDate)
                        ELSE Null
    IN  Null

\* XboxStoreParser(store_data).to_dict: store_data or {}
XboxToDict(store_data) ==
    IF store_data.kind = "doc"
    THEN [store_title |-> store_data.title,
          platforms |-> store_data.availableOn,
          release_date |-> get_release_date(store_data)]
    ELSE [store_title |-> Null, platforms |-> <<>>, release_date |-> Null]

\* the document the metadata API holds for an id
RawIgdbDoc(id) == [kind |-> "doc", general |-> [id |-> id, name |-> IgdbName(id)]]

\* IGDBParser(data).to_dict: data or {}
IgdbToDict(data) ==
    IF data.kind = "doc"
    THEN [id |-> data.general.id, name |-> data.general.name]
    ELSE [id |-> Null, name |-> Null]

-----------------------------------------------------------------------------
(* IGDBParser on raw documents whose keys may be missing or null.           *)
(* A JSON value is a tagged record; a dict's content is a function whose    *)
(* domain holds the keys that are present.                                  *)

JNull == [t |-> "null"]
JStr(x) == [t |-> "str", s |-> x]
JInt(n) == [t |-> "int", i |-> n]
JBool(x) == [t |-> "bool", b |-> x]
JList(xs) == [t |-> "list", l |-> xs]
JDict(x) == [t |-> "dict", d |-> x]

\* d.get(k, default) on the content of a dict
Get(d, k, default) == IF k \in DOMAIN d THEN d[k] ELSE default

\* bool(x) of a JSON value
Truthy(x) ==
    CASE x.t = "null" -> FALSE
      [] x.t = "bool" -> x.b
      [] x.t = "int" -> x.i # 0
      [] x.t = "str" -> x.s # ""
      [] x.t = "list" -> x.l # <<>>
      [] x.t = "dict" -> DOMAIN x.d # {}

\* a JSON string or null as the model's plain value
Plain(x) == IF x.t = "null" THEN Null ELSE x.s

Ok(v) == [raised |-> FALSE, v |-> v]
Raised == [raised |-> TRUE]

\* self._data.get("general", {})
GeneralSection(data) == Get(data, "general", JDict(<<>>))

\* a field read as self._data.get("general", {}).get(key): get_id, get_name,
\* get_url; AttributeError when "general" holds no dict
GeneralField(data, key) ==
    LET section == GeneralSection(data)
    IN  IF section.t # "dict" THEN Raised
        ELSE Ok(Plain(Get(section.d, key, JNull)))

\* IGDBParser._extract_names: TypeError when the key holds no list
_extract_names(data, key) ==
    LET section == GeneralSection(data)
    IN  IF section.t # "dict" THEN Raised
        ELSE LET items == Get(section.d, key, JList(<<>>))
             IN  IF items.t # "list" THEN Raised
                 ELSE LET named == {i \in 1..Len(items.l) :
                                       items.l[i].t = "dict" /\ "name" \in DOMAIN items.l[i].d}
                          Pick[i \in 0..Len(items.l)] ==
                              IF i = 0 THEN <<>>
                              ELSE IF i \in named
                                   THEN Append(Pick[i - 1], Plain(items.l[i].d["name"]))
                                   ELSE Pick[i - 1]
                      IN  Ok(Pick[Len(items.l)])

\* the company names the catalog's documents use, in Python string order
CompanyNames == <<"505 Games", "Remedy Entertainment">>

\* sorted(names) of a set of company names
SortedNames(names) == FilterSeq(CompanyNames, names)

\* IGDBParser._extract_companies: the set of c["company"]["name"] over the
\* entries with a truthy role flag, sorted, None and "" filtered out;
\* TypeError on a non-list, AttributeError on a company that is no dict
_extract_companies(data, role_key) ==
    LET section == GeneralSection(data)
    IN  IF section.t # "dict" THEN Raised
        ELSE LET cs == Get(section.d, "involved_companies", JList(<<>>))
             IN  IF cs.t # "list" THEN Raised
                 ELSE LET with == {i \in 1..Len(cs.l) :
                                      Truthy(Get(cs.l[i].d, role_key, JNull))}
                          company(i) == Get(cs.l[i].d, "company", JDict(<<>>))
                      IN  IF \E i \in with : company(i).t # "dict" THEN Raised
                          ELSE Ok(SortedNames(
                                  {Plain(Get(company(i).d, "name", JNull)) : i \in with}))

\* GAME_TYPE_MAP.get(code)
GAME_TYPE_MAP(code) ==
    IF code.t # "int" THEN Null
    ELSE CASE code.i = 0 -> "main_game"
           [] code.i = 8 -> "remake"
           [] code.i = 9 -> "remaster"
           [] OTHER -> Null

\* IGDBParser._extract_game_type
_extract_game_type(data) ==
    LET section == GeneralSection(data)
    IN  IF section.t # "dict" THEN Raised
        ELSE Ok(GAME_TYPE_MAP(Get(section.d, "game_type", JNull)))

\* PLATFORM_NAMES.get(code)
PLATFORM_NAMES(code) ==
    IF code.t # "int" THEN Null
    ELSE CASE code.i = 6 -> "PC"
           [] code.i = 12 -> "Xbox 360"
           [] code.i = 49 -> "Xbox One"
           [] code.i = 169 -> "Xbox Series X|S"
           [] OTHER -> Null

\* IGDBParser._fmt_date: datetime.fromtimestamp(ts) without a time zone is
\* the local time of the process, tz seconds east of UTC; strftime gives its
\* calendar day
_fmt_date(ts, tz) ==
    CASE (ts + tz) \div 86400 = 18134 -> "2019-08-26"
      [] (ts + tz) \div 86400 = 18135 -> "2019-08-27"
      [] (ts + tz) \div 86400 = 18261 -> "2019-12-31"
      [] (ts + tz) \div 86400 = 18262 -> "2020-01-01"

\* datetime.strptime(s, "%Y-%m-%d").timestamp(): the first second of the
\* day in local time
DayStart(s, tz) ==
    CASE s = "2019-08-26" -> 18134 * 86400 - tz
      [] s = "2019-08-27" -> 18135 * 86400 - tz
      [] s = "2019-12-31" -> 18261 * 86400 - tz
      [] s = "2020-01-01" -> 18262 * 86400 - tz

NoPlatformDates == [release_date_ea |-> Null, release_date_1_0 |-> Null]

\* result of parse_release_date_info before the loop
NoReleaseInfo ==
    [release_date |-> Null,
     platforms |-> [n \in {"PC", "Xbox One", "Xbox Series X|S", "Xbox 360"} |->
                       NoPlatformDates]]

\* the loop of parse_release_date_info over the entries, in list order
RECURSIVE ParseEntries(_, _, _, _)
ParseEntries(entries, result, all_dates, tz) ==
    IF entries = <<>>
    THEN IF all_dates # {}
         THEN [result EXCEPT !.release_date = _fmt_date(Min(all_dates), tz)]
         ELSE result
    ELSE LET entry == Head(entries).d
             ts == Get(entry, "date", JNull)
         IN  IF ~Truthy(ts) THEN ParseEntries(Tail(entries), result, all_dates, tz)
             ELSE LET platform_name == PLATFORM_NAMES(Get(entry, "platform", JNull))
                      status == Get(entry, "status", JInt(6))
                      date_str == _fmt_date(ts.i, tz)
                      slot == IF status.t = "int" /\ status.i = 3
                              THEN "release_date_ea" ELSE "release_date_1_0"
                      dates == all_dates \cup {ts.i}
                  IN  IF platform_name = Null
                      THEN ParseEntries(Tail(entries), result, dates, tz)
                      ELSE LET current == result.platforms[platform_name][slot]
                           IN  IF current = Null \/ ts.i < DayStart(current, tz)
                               THEN ParseEntries(Tail(entries),
                                       [result EXCEPT
                                           !.platforms[platform_name][slot] = date_str],
                                       dates, tz)
                               ELSE ParseEntries(Tail(entries), result, dates, tz)

\* IGDBParser.parse_release_date_info: TypeError when "release_dates" holds
\* no list
parse_release_date_info(data, tz) ==
    LET release_dates == Get(data, "release_dates", JList(<<>>))
    IN  IF release_dates.t # "list" THEN Raised
        ELSE Ok(ParseEntries(release_dates.l, NoReleaseInfo, {}, tz))

\* IGDBParser(data).to_dict on a raw document; url, publishers, themes,
\* game_modes, player_perspectives and engine are read by the same accessors
\* as name, developers and genres
IGDBParser_to_dict(data, tz) ==
    LET id == GeneralField(data, "id")
        name == GeneralField(data, "name")
        developers == _extract_companies(data, "developer")
        genres == _extract_names(data, "genres")
        game_type == _extract_game_type(data)
        release_dates == parse_release_date_info(data, tz)
    IN  IF \/ id.raised \/ name.raised \/ developers.raised
           \/ genres.raised \/ game_type.raised \/ release_dates.raised
        THEN Raised
        ELSE Ok([id |-> id.v, name |-> name.v, developers |-> developers.v,
                 genres |-> genres.v, game_type |-> game_type.v,
                 release_dates |-> release_dates.v])

-----------------------------------------------------------------------------
(* XboxStoreParser.get_availabilities *)

\* decryption: tier-product identifier -> tier name
decryption ==
    ("CFQ7TTC0K5DJ" :> "Essential") @@ ("CFQ7TTC0KHS0" :> "Ultimate") @@
    ("CFQ7TTC0K6L8" :> "Console") @@ ("CFQ7TTC0KGQ8" :> "PC") @@
    ("CFQ7TTC0P85B" :> "Premium") @@ ("CFQ7TTC0QH5H" :> "Ubisoft+ Premium") @@
    ("nakuconsole" :> "Ubisoft+ Classics") @@ ("nakupcgce" :> "Ubisoft+ Classics PC") @@
    ("CFQ7TTC0K5DH" :> "EA Play")

\* the strings datetime.strptime(s, "%Y-%m-%d") accepts
ValidDates == {"2019-08-27", "2023-01-01", "2023-03-01", "2024-06-30"}

\* datetime.strptime(s, "%Y-%m-%d"), as the day count yyyymmdd
strptime(s) ==
    CASE s = "2019-08-27" -> 20190827
      [] s = "2023-01-01" -> 20230101
      [] s = "2023-03-01" -> 20230301
      [] s = "2024-06-30" -> 20240630

\* d.strftime("%Y-%m-%d")
strftime(d) == CHOOSE s \in ValidDates : strptime(s) = d

\* the message of the exception a step raises
AttributeErrorText == "'NoneType' object has no attribute 'get'"
ValueErrorText == "time data does not match format '%Y-%m-%d'"

\* result of get_availabilities while it runs: ref maps a tier name to the
\* dict object it holds (named by the tier that created it), cell is the
\* content of each dict object, error the text of a caught exception
EmptyResult == [ref |-> <<>>, cell |-> <<>>, error |-> Null]

\* lines 67-76: the tiers of the raw document, in key order; meta.get raises
\* on a meta that is no mapping and ends the loop
RECURSIVE ResolveTiers(_, _)
ResolveTiers(items, result) ==
    IF items = <<>> THEN result
    ELSE LET product_id == Head(items)[1]
             meta == Head(items)[2]
         IN  IF product_id \notin DOMAIN decryption
             THEN ResolveTiers(Tail(items), result)
             ELSE IF meta.kind = "none"
             THEN [result EXCEPT !.error = AttributeErrorText]
             ELSE LET name == decryption[product_id]
                      added == IF meta.entryDateUTC # Null
                               THEN DatePart(meta.entryDateUTC) ELSE Null
                      removed == IF meta.exitDateUTC # Null
                                 THEN DatePart(meta.exitDateUTC) ELSE Null
                  IN  ResolveTiers(Tail(items),
                          [result EXCEPT
                              !.ref = (name :> name) @@ @,
                              !.cell = (name :> [added |-> added, removed |-> removed]) @@ @])

\* variant: the equivalence rules apply whatever the publisher is
EaRules_AnyPublisher(publisher_name, platforms, result) ==
    LET r1 == IF "Ultimate" \in DOMAIN result.ref /\ "EA Play" \notin DOMAIN result.ref
              THEN [result EXCEPT !.ref = ("EA Play" :> @["Ultimate"]) @@ @]
              ELSE result
        r2 == IF "EA Play" \in DOMAIN r1.ref /\ "Ultimate" \notin DOMAIN r1.ref
              THEN [r1 EXCEPT !.ref = ("Ultimate" :> @["EA Play"]) @@ @]
              ELSE r1
    IN  IF "PC" \notin DOMAIN r2.ref /\ "EA Play" \in DOMAIN r2.ref
           /\ "pc" \in SeqToSet(platforms)
        THEN [r2 EXCEPT !.ref = ("PC" :> @["EA Play"]) @@ @]
        ELSE r2

\* variant: the synthesized tier is a copy of the dict, not the dict itself
EaRules_Copy(publisher_name, platforms, result) ==
    IF publisher_name # "Electronic Arts" THEN result
    ELSE LET r1 == IF "Ultimate" \in DOMAIN result.ref /\ "EA Play" \notin DOMAIN result.ref
                   THEN [result EXCEPT !.ref = ("EA Play" :> "EA Play") @@ @,
                                       !.cell = ("EA Play" :> @[result.ref["Ultimate"]]) @@ @]
                   ELSE result
             r2 == IF "EA Play" \in DOMAIN r1.ref /\ "Ultimate" \notin DOMAIN r1.ref
                   THEN [r1 EXCEPT !.ref = ("Ultimate" :> "Ultimate") @@ @,
                                   !.cell = ("Ultimate" :> @[r1.ref["EA Play"]]) @@ @]
                   ELSE r1
         IN  IF "PC" \notin DOMAIN r2.ref /\ "EA Play" \in DOMAIN r2.ref
                /\ "pc" \in SeqToSet(platforms)
             THEN [r2 EXCEPT !.ref = ("PC" :> "PC") @@ @,
                             !.cell = ("PC" :> @[r2.ref["EA Play"]]) @@ @]
             ELSE r2

\* lines 79-89: result["EA Play"] = result["Ultimate"] and the like bind the
\* second name to the same dict object
EaRules(publisher_name, platforms, result) ==
    IF publisher_name # "Electronic Arts" THEN result
    ELSE LET r1 == IF "Ultimate" \in DOMAIN result.ref /\ "EA Play" \notin DOMAIN result.ref
                   THEN [result EXCEPT !.ref = ("EA Play" :> @["Ultimate"]) @@ @]
                   ELSE result
             r2 == IF "EA Play" \in DOMAIN r1.ref /\ "Ultimate" \notin DOMAIN r1.ref
                   THEN [r1 EXCEPT !.ref = ("Ultimate" :> @["EA Play"]) @@ @]
                   ELSE r1
         IN  IF "PC" \notin DOMAIN r2.ref /\ "EA Play" \in DOMAIN r2.ref
                /\ "pc" \in SeqToSet(platforms)
             THEN [r2 EXCEPT !.ref = ("PC" :> @["EA Play"]) @@ @]
             ELSE r2

\* the added strings of result.values() that are truthy
AddedStrings(result) ==
    {result.cell[result.ref[n]].added : n \in DOMAIN result.ref} \ {Null}

\* variant: Ultimate's added date is left as resolved
ClampUltimate_Never(result) ==
    IF AddedStrings(result) \ ValidDates # {}
    THEN [result EXCEPT !.error = ValueErrorText]
    ELSE result

\* lines 92-109: strptime of every added string (ValueError on a string that
\* is no date), then Ultimate's dict gets the oldest date when its own is later
ClampUltimate(result) ==
    IF AddedStrings(result) \ ValidDates # {}
    THEN [result EXCEPT !.error = ValueErrorText]
    ELSE LET added_dates == {strptime(s) : s \in AddedStrings(result)}
         IN  IF added_dates # {} /\ "Ultimate" \in DOMAIN result.ref
             THEN LET oldest == Min(added_dates)
                      u == result.ref["Ultimate"]
                      ultimate_added == result.cell[u].added
                  IN  IF ultimate_added # Null /\ strptime(ultimate_added) > oldest
                      THEN [result EXCEPT !.cell[u].added = strftime(oldest)]
                      ELSE result
             ELSE result

\* the dict get_availabilities returns: every tier name with the content of
\* its dict object, and the key "error" when an exception was caught
ReturnedDict(result) ==
    [tiers |-> [n \in DOMAIN result.ref |-> result.cell[result.ref[n]]],
     error |-> result.error]

ResultKeys(out) == DOMAIN out.tiers \cup (IF out.error # Null THEN {"error"} ELSE {})

\* XboxStoreParser.get_availabilities; store_data.passes is the dict
\* passMetadataByPassProductId as <<product id, meta>> pairs in key order
get_availabilities(store_data) ==
    LET r0 == ResolveTiers(store_data.passes, EmptyResult)
        r1 == IF r0.error # Null THEN r0
              ELSE EaRules(store_data.publisherName, store_data.availableOn, r0)
        r2 == IF r1.error # Null THEN r1 ELSE ClampUltimate(r1)
    IN  ReturnedDict(r2)

-----------------------------------------------------------------------------
(* TitleMatcher: igdb_best_match. A title is a sequence of characters.      *)

UpperLetters ==
    <<"A", "B", "C", "D", "E", "F", "G", "H", "I", "J", "K", "L", "M",
      "N", "O", "P", "Q", "R", "S", "T", "U", "V", "W", "X", "Y", "Z">>

LowerLetters ==
    <<"a", "b", "c", "d", "e", "f", "g", "h", "i", "j", "k", "l", "m",
      "n", "o", "p", "q", "r", "s", "t", "u", "v", "w", "x", "y", "z">>

\* str.lower() of one character
LowerChar(c) ==
    IF \E i \in 1..Len(UpperLetters) : UpperLetters[i] = c
    THEN LowerLetters[CHOOSE i \in 1..Len(UpperLetters) : UpperLetters[i] = c]
    ELSE c

LowerStr(s) == [i \in 1..Len(s) |-> LowerChar(s[i])]

\* the characters \w matches
WordChars ==
    SeqToSet(UpperLetters) \cup SeqToSet(LowerLetters)
    \cup {"0", "1", "2", "3", "4", "5", "6", "7", "8", "9", "_"}

\* str.strip()
RECURSIVE StripLeft(_)
StripLeft(s) == IF s # <<>> /\ Head(s) = " " THEN StripLeft(Tail(s)) ELSE s

RECURSIVE StripRight(_)
StripRight(s) ==
    IF s # <<>> /\ s[Len(s)] = " " THEN StripRight(SubSeq(s, 1, Len(s) - 1)) ELSE s

Strip(s) == StripRight(StripLeft(s))

\* \b at the position before s[i], i in 1..Len(s)+1
AtBoundary(s, i) ==
    ((i > 1) /\ s[i - 1] \in WordChars) # ((i <= Len(s)) /\ s[i] \in WordChars)

\* the ASCII members of the class [-...()|:] of PLATFORM_PATTERN
SeparatorChars == {"-", "(", ")", "|", ":"}

\* the widths (\b|\s|[-...()|:]) can take at position i, in the order the
\* alternatives are tried
Seps(s, i) ==
    (IF AtBoundary(s, i) THEN <<0>> ELSE <<>>)
    \o (IF i <= Len(s) /\ s[i] = " " THEN <<1>> ELSE <<>>)
    \o (IF i <= Len(s) /\ s[i] \in SeparatorChars THEN <<1>> ELSE <<>>)

\* Xbox(?:\s(?:One|Series\sX\|S))?|PC|Windows with IGNORECASE, in the order
\* the alternatives are tried
PlatformWords ==
    << <<"x", "b", "o", "x", " ", "o", "n", "e">>,
       <<"x", "b", "o", "x", " ", "s", "e", "r", "i", "e", "s", " ", "x", "|", "s">>,
       <<"x", "b", "o", "x">>,
       <<"p", "c">>,
       <<"w", "i", "n", "d", "o", "w", "s">> >>

HasWordAt(s, i, w) ==
    /\ i + Len(w) - 1 <= Len(s)
    /\ \A k \in 1..Len(w) : LowerChar(s[i + k - 1]) = w[k]

RECURSIVE Flatten(_)
Flatten(ss) == IF ss = <<>> THEN <<>> ELSE Head(ss) \o Flatten(Tail(ss))

\* the ends (exclusive) of the matches of PLATFORM_PATTERN that start at i, in
\* the order of preference of the regex engine
MatchEnds(s, i) ==
    LET g1s == Seps(s, i)
        ForWord(st, k) ==
            LET e == st + Len(PlatformWords[k])
            IN  IF HasWordAt(s, st, PlatformWords[k])
                THEN [j \in 1..Len(Seps(s, e)) |-> e + Seps(s, e)[j]]
                ELSE <<>>
        ForG1(g1) == Flatten([k \in 1..Len(PlatformWords) |-> ForWord(i + g1, k)])
    IN  Flatten([n \in 1..Len(g1s) |-> ForG1(g1s[n])])

\* PLATFORM_PATTERN.sub(" ", s) from position i on
RECURSIVE PlatformSub(_, _)
PlatformSub(s, i) ==
    IF i > Len(s) THEN <<>>
    ELSE LET ends == MatchEnds(s, i)
         IN  IF ends # <<>>
             THEN <<" ">> \o PlatformSub(s, Head(ends))
             ELSE <<s[i]>> \o PlatformSub(s, i + 1)

\* the ASCII-representable member of the class of the first re.sub of
\* clean_title (the class holds the characters U+00AC, U+00C6, U+201A,
\* U+00D1, U+00A2 and U+00A9)
StrippedGlyphs == {"(c)"}

RemoveGlyphs(s) ==
    LET keep == {c \in SeqToSet(s) : c \notin StrippedGlyphs}
    IN  FilterSeq(s, keep)

\* re.sub(r"\s{2,}", " ", s)
RECURSIVE CollapseSpaces(_)
CollapseSpaces(s) ==
    IF Len(s) < 2 THEN s
    ELSE IF s[1] = " " /\ s[2] = " " THEN CollapseSpaces(Tail(s))
    ELSE <<Head(s)>> \o CollapseSpaces(Tail(s))

\* clean_title
clean_title(title) == Strip(CollapseSpaces(PlatformSub(RemoveGlyphs(title), 1)))

\* length of the longest common subsequence
RECURSIVE LCS(_, _)
LCS(a, b) ==
    IF a = <<>> \/ b = <<>> THEN 0
    ELSE IF Head(a) = Head(b) THEN 1 + LCS(Tail(a), Tail(b))
    ELSE LET x == LCS(Tail(a), b)
             y == LCS(a, Tail(b))
         IN  IF x >= y THEN x ELSE y

\* a score is the fraction n/d
Score(n, d) == [n |-> n, d |-> d]

\* rapidfuzz.fuzz.ratio: 100 * (1 - indel distance / (len(a) + len(b)))
fuzz_ratio(a, b) ==
    IF Len(a) + Len(b) = 0 THEN Score(100, 1)
    ELSE Score(200 * LCS(a, b), Len(a) + Len(b))

\* re.search(rf"\b{re.escape(query_l)}\b", cand_l)
WholeWordIn(query_l, cand_l) ==
    \E i \in 1..(Len(cand_l) + 1) :
        /\ i + Len(query_l) - 1 <= Len(cand_l)
        /\ SubSeq(cand_l, i, i + Len(query_l) - 1) = query_l
        /\ AtBoundary(cand_l, i)
        /\ AtBoundary(cand_l, i + Len(query_l))

\* min(base, 100)
Min100(x) == IF x.n > 100 * x.d THEN Score(100, 1) ELSE x

\* title_similarity; len(query_l) / len(cand_l) raises ZeroDivisionError on
\* an empty candidate
title_similarity(query, candidate) ==
    LET query_l == Strip(LowerStr(query))
        cand_l == Strip(LowerStr(candidate))
        r == fuzz_ratio(query_l, cand_l)
        base == IF WholeWordIn(query_l, cand_l) THEN Score(r.n + 10 * r.d, r.d) ELSE r
    IN  IF Len(cand_l) = 0 THEN [raised |-> TRUE]
        ELSE [raised |-> FALSE,
              score |-> Min100(IF 2 * Len(query_l) < Len(cand_l)
                               THEN Score(base.n * (2 * Len(query_l) + Len(cand_l)),
                                          base.d * 2 * Len(cand_l))
                               ELSE base)]

\* datetime.fromtimestamp(ts, timezone.utc).year
YearOfTimestamp(ts) ==
    CASE ts >= 1546300800 /\ ts < 1577836800 -> 2019
      [] ts >= 1577836800 /\ ts < 1609459200 -> 2020
      [] ts >= 1609459200 /\ ts < 1640995200 -> 2021

\* release_date.year
YearOfDate(d) ==
    CASE d = "2019-08-27" -> 2019
      [] d = "2019-08-28" -> 2019
      [] d = "2020-01-01" -> 2020

\* igdb_year of a candidate: None without a truthy first_release_date
igdb_year(c) ==
    IF Truthy(Get(c, "first_release_date", JNull))
    THEN YearOfTimestamp(c["first_release_date"].i) ELSE 0

\* year_score of _igdb_search_core; 0 stands for None
year_score(release_year, c) ==
    LET y == igdb_year(c)
    IN  IF release_year # 0 /\ y = release_year THEN 20
        ELSE IF release_year # 0 /\ y # 0 /\ y - release_year \in {-1, 0, 1} THEN 10
        ELSE 0

\* total = fuzz_score + year_score of one candidate
CandidateTotal(title, release_year, c) ==
    LET f == title_similarity(title, clean_title(c["name"].s))
    IN  IF f.raised THEN f
        ELSE [raised |-> FALSE,
              score |-> Score(f.score.n + year_score(release_year, c) * f.score.d,
                              f.score.d)]

\* variant: a later candidate with an equal score replaces the best
Better_OrEqual(total, best_score) == total.n * best_score.d >= best_score.n * total.d

\* total > best_score
Better(total, best_score) == total.n * best_score.d > best_score.n * total.d

\* the loop of _igdb_search_core over the candidates
RECURSIVE BestOf(_, _, _, _, _)

\* one iteration of the loop, t the total of the first candidate of data
LoopStep(data, title, release_year, best, best_score, t) ==
    IF t.raised THEN [raised |-> TRUE]
    ELSE IF Better(t.score, best_score)
    THEN BestOf(Tail(data), title, release_year, <<Head(data)>>, t.score)
    ELSE BestOf(Tail(data), title, release_year, best, best_score)

BestOf(data, title, release_year, best, best_score) ==
    IF data = <<>> THEN [raised |-> FALSE, best |-> best, best_score |-> best_score]
    ELSE LoopStep(data, title, release_year, best, best_score,
                  CandidateTotal(title, release_year, Head(data)))

\* what _igdb_search_core returns after the loop, b the outcome of the loop;
\* time.sleep(0.3) stands between the loop and the return
CoreReturn(b) ==
    IF b.raised THEN [raised |-> TRUE]
    ELSE IF b.best # <<>>
    THEN [raised |-> FALSE,
          id |-> IF b.best_score.n >= 80 * b.best_score.d
                 THEN b.best[1]["id"].s ELSE Null,
          best_score |-> b.best_score,
          slept |-> TRUE]
    ELSE [raised |-> FALSE, id |-> Null, best_score |-> Score(0, 1), slept |-> TRUE]

\* _igdb_search_core: (id, best_score); response is the outcome of the search
\* request, a failure or the list of candidates; slept tells whether
\* time.sleep(0.3) ran before the return
_igdb_search_core(title, release_date, response) ==
    IF response.failed \/ response.data = <<>>
    THEN [raised |-> FALSE, id |-> Null, best_score |-> Score(0, 1), slept |-> FALSE]
    ELSE CoreReturn(BestOf(response.data, title,
                           IF release_date # Null THEN YearOfDate(release_date) ELSE 0,
                           <<>>, Score(0, 1)))

\* search_igdb_best
search_igdb_best(title, release_date, response) ==
    LET r == _igdb_search_core(clean_title(title), release_date, response)
    IN  IF r.raised THEN [raised |-> TRUE]
        ELSE [raised |-> FALSE, id |-> r.id, slept |-> r.slept]

-----------------------------------------------------------------------------
(* External fetchers with their on-disk caches *)

FetchOutcomes == {"ok", "none", "raise"}

\* what the storefront answers in one run: every page loads, or one SKU's
\* page yields no product data or fails to load
StoreAnswers ==
    {out \in [Skus -> FetchOutcomes] : Cardinality({p \in Skus : out[p] # "ok"}) <= 1}

\* xbox_scrape / XboxStoreScraper.fetch_and_save: the cached document unless
\* overwrite; otherwise the page is loaded (may raise), the product data
\* extracted (may be None) and saved. Returns scraper._product_data.
xbox_scrape(cache, pid, overwrite, outcome) ==
    IF pid \in DOMAIN cache /\ ~overwrite
    THEN [cache |-> cache, data |-> cache[pid], raised |-> FALSE, how |-> "cached"]
    ELSE IF outcome = "raise"
    THEN [cache |-> cache, data |-> NoData, raised |-> TRUE, how |-> "raise"]
    ELSE IF outcome = "none"
    THEN [cache |-> cache, data |-> NoData, raised |-> FALSE, how |-> "none"]
    ELSE [cache |-> (pid :> RawStoreDoc(pid)) @@ cache, data |-> RawStoreDoc(pid),
          raised |-> FALSE, how |-> "ok"]

\* the list comprehension of fetch_store_data: one scrape per pid, in order,
\* ended by the first one that raises
RECURSIVE ScrapeAll(_, _, _, _)
ScrapeAll(cache, pids, overwrite, out) ==
    IF pids = <<>>
    THEN [cache |-> cache, list |-> <<>>, raised |-> FALSE, how |-> <<>>]
    ELSE LET r == xbox_scrape(cache, Head(pids), overwrite, out[Head(pids)])
         IN  IF r.raised
             THEN [cache |-> r.cache, list |-> <<>>, raised |-> TRUE,
                   how |-> (Head(pids) :> r.how)]
             ELSE LET rest == ScrapeAll(r.cache, Tail(pids), overwrite, out)
                  IN  [cache |-> rest.cache, list |-> <<r.data>> \o rest.list,
                       raised |-> rest.raised,
                       how |-> (Head(pids) :> r.how) @@ rest.how]

\* JSONMaker.fetch_store_data: data.get("availableOn", []) raises on a None
\* document; the groups come from the dict pid -> availableOn in pid order
fetch_store_data(cache, pids, overwrite, out) ==
    LET s == ScrapeAll(cache, pids, overwrite, out)
        noneSeen == \E i \in 1..Len(s.list) : s.list[i].kind = "none"
    IN  [cache |-> s.cache, list |-> s.list, how |-> s.how,
         raised |-> s.raised \/ noneSeen,
         groups |-> IF s.raised \/ noneSeen THEN <<>>
                    ELSE group_skus_by_platform(
                           [i \in 1..Len(pids) |-> <<pids[i], s.list[i].availableOn>>])]

\* get_IGDB_data / IGDBRetriever.request_and_save_data: the cached document
\* unless overwrite; otherwise fetch_data, whose raise_for_status() and data[0]
\* raise on a failed request or an empty answer
get_IGDB_data(cache, id, overwrite, outcome) ==
    IF id \in DOMAIN cache /\ ~overwrite
    THEN [cache |-> cache, data |-> cache[id], raised |-> FALSE]
    ELSE IF outcome = "ok"
    THEN [cache |-> (id :> RawIgdbDoc(id)) @@ cache, data |-> RawIgdbDoc(id),
          raised |-> FALSE]
    ELSE [cache |-> cache, data |-> NoData, raised |-> TRUE]

-----------------------------------------------------------------------------
(* JSONMaker *)

\* JSONMaker.__init__: the non-empty pid slots of the row, in slot order
RowPids(r) == FilterSeq(r.pid, Skus)

\* related_skus = [p for p in self._pids if p != pid]
RelatedSkus(pids, pid) == FilterSeq(pids, SeqToSet(pids) \ {pid})

\* variant: the overwrite flag makes the loop regenerate existing files
RecordExists_UnlessOverwrite(recs, pid, overwrite) == pid \in DOMAIN recs /\ ~overwrite

\* os.path.exists(f"mnt/xbox/gp_new/{pid}.json"): the overwrite flag plays no part
RecordExists(recs, pid, overwrite) == pid \in DOMAIN recs

\* the dict written for one SKU
ComposeRecord(pid, maker, xbox_data, igdb_match, parent, version) ==
    [basic_info |->
        [base_id |-> parent.id,
         specific_id |-> igdb_match,
         title |-> parent.name,
         store_title |-> xbox_data.store_title,
         pid |-> pid,
         alternate_xbox_id |-> Null,
         related_skus |-> RelatedSkus(maker._pids, pid),
         sku_groups |-> maker.sku_groups,
         original_release_date |-> maker._row.release,
         release_date |-> xbox_data.release_date,
         platforms |-> xbox_data.platforms],
     igdb_meta |-> [main |-> parent, specific |-> version]]

NoOp == [op |-> "none", pid |-> Null, status |-> Null, updates |-> <<>>, wrote |-> FALSE]

IdleMaker ==
    [_pids |-> <<>>, _row |-> [pid |-> <<>>, igdb |-> Null, release |-> Null],
     _overwrite |-> FALSE, _store_data_list |-> <<>>, sku_groups |-> <<>>,
     _IGDB_data |-> NoData, i |-> 0]

NoRun == [writes |-> 0, failed |-> {}, raisedBy |-> "none", repeat |-> FALSE]

\* the pids whose storefront fetch failed, from the outcomes of a run
FailedFetches(how) == {p \in DOMAIN how : how[p] \in {"none", "raise"}}

\* compose_jsons up to the loop: fetch_store_data, then the canonical metadata
ComposeStart(ov, out, igdbOut) ==
    /\ pc \in {"idle", "done", "raised"}
    /\ budget.runs > 0
    \* a request that is not sent has no outcome to draw
    /\ \A p \in Skus :
          (p \notin SeqToSet(RowPids(row)) \/ (p \in DOMAIN storeCache /\ ~ov))
              => out[p] = "ok"
    /\ (row.igdb \in DOMAIN igdbCache /\ ~ov) => igdbOut = "ok"
    /\ (\E p \in Skus : out[p] # "ok") => igdbOut = "ok"
    /\ LET pids == RowPids(row)
           f == fetch_store_data(storeCache, pids, ov, out)
           g == get_IGDB_data(igdbCache, row.igdb, ov, igdbOut)
           maker == [_pids |-> pids, _row |-> row, _overwrite |-> ov,
                     _store_data_list |-> f.list, sku_groups |-> f.groups,
                     _IGDB_data |-> g.data, i |-> 1]
           again == pc = "done" /\ jm._row = row
       IN  /\ storeCache' = f.cache
           /\ IF f.raised
              THEN /\ pc' = "raised"
                   /\ jm' = [maker EXCEPT !._store_data_list = <<>>,
                                          !._IGDB_data = NoData, !.i = 0]
                   /\ igdbCache' = igdbCache
                   /\ runInfo' = [writes |-> 0, failed |-> FailedFetches(f.how), raisedBy |-> "store",
                                  repeat |-> again]
              ELSE IF g.raised
              THEN /\ pc' = "raised"
                   /\ jm' = [maker EXCEPT !.i = 0]
                   /\ igdbCache' = igdbCache
                   /\ runInfo' = [writes |-> 0, failed |-> FailedFetches(f.how), raisedBy |-> "igdb",
                                  repeat |-> again]
              ELSE /\ pc' = IF pids = <<>> THEN "done" ELSE "loop"
                   /\ jm' = maker
                   /\ igdbCache' = g.cache
                   /\ runInfo' = [writes |-> 0, failed |-> FailedFetches(f.how), raisedBy |-> "none",
                                  repeat |-> again]
    /\ budget' = [budget EXCEPT !.runs = @ - 1]
    /\ lastOp' = [NoOp EXCEPT !.op = "compose_start"]
    /\ UNCHANGED <<row, records, searchIndex, gIn, gOut>>

\* what search_igdb_best answers for a storefront title: no confident match
\* (also on a failed request or an empty answer), or the id of the best one
SearchResults == {Null, "202"}

\* variant: without a match the SKU gets another id than the canonical one
FallbackMatch_Other(igdb_match, row_igdb) ==
    IF igdb_match = Null THEN "202" ELSE igdb_match

\* if not igdb_match: igdb_match = self._row.igdb
FallbackMatch(igdb_match, row_igdb) ==
    IF igdb_match = Null THEN row_igdb ELSE igdb_match

\* one iteration of the loop of compose_jsons, up to the pause at input()
ComposeSku(m, igdbOut) ==
    /\ pc = "loop"
    \* a request that is not sent has no outcome to draw
    /\ RecordExists(records, jm._pids[jm.i], jm._overwrite) => (m = Null /\ igdbOut = "ok")
    /\ (FallbackMatch(m, jm._row.igdb) \in DOMAIN igdbCache /\ ~jm._overwrite)
          => igdbOut = "ok"
    /\ LET pid == jm._pids[jm.i]
           store_data == jm._store_data_list[jm.i]
           next == IF jm.i = Len(jm._pids) THEN "done" ELSE "loop"
           xbox_data == XboxToDict(store_data)
           igdb_match == FallbackMatch(m, jm._row.igdb)
           g == get_IGDB_data(igdbCache, igdb_match, jm._overwrite, igdbOut)
           parent == IgdbToDict(jm._IGDB_data)
           version == IgdbToDict(g.data)
           data == ComposeRecord(pid, jm, xbox_data, igdb_match, parent, version)
       IN  IF RecordExists(records, pid, jm._overwrite)
           THEN /\ pc' = next
                /\ jm' = [jm EXCEPT !.i = @ + 1]
                /\ lastOp' = [NoOp EXCEPT !.op = "compose_sku", !.pid = pid]
                /\ UNCHANGED <<records, igdbCache, runInfo>>
           ELSE IF g.raised
           THEN /\ pc' = "raised"
                /\ runInfo' = [runInfo EXCEPT !.raisedBy = "igdb"]
                /\ lastOp' = [NoOp EXCEPT !.op = "compose_sku", !.pid = pid,
                                          !.updates = [match |-> m]]
                /\ UNCHANGED <<records, igdbCache, jm>>
           ELSE /\ pc' = next
                /\ jm' = [jm EXCEPT !.i = @ + 1]
                /\ records' = (pid :> data) @@ records
                /\ igdbCache' = g.cache
                /\ runInfo' = [runInfo EXCEPT !.writes = @ + 1]
                /\ lastOp' = [NoOp EXCEPT !.op = "compose_sku", !.pid = pid,
                                          !.updates = [match |-> m],
                                          !.wrote = TRUE]
    /\ UNCHANGED <<row, searchIndex, storeCache, budget, gIn, gOut>>

\* flask_app.edit (POST): the row's pid slots and igdb id are replaced
CatalogEdit(r) ==
    /\ budget.edits > 0
    /\ r # row
    /\ row' = r
    /\ budget' = [budget EXCEPT !.edits = @ - 1]
    /\ lastOp' = [NoOp EXCEPT !.op = "catalog_edit"]
    /\ UNCHANGED <<records, searchIndex, storeCache, igdbCache, pc, jm, runInfo,
                   gIn, gOut>>

-----------------------------------------------------------------------------
(* The JSON editing UI: flask_for_json *)

IndexEntry(data) ==
    [title |-> data.basic_info.title, store_title |-> data.basic_info.store_title]

\* build_search_index: one entry per record file, written to the index file
build_search_index(recs) ==
    [exists |-> TRUE, entries |-> [p \in DOMAIN recs |-> IndexEntry(recs[p])]]

\* load_search_index: the index file, or a fresh build when there is none
load_search_index(recs, idx) ==
    IF idx.exists THEN idx.entries ELSE build_search_index(recs).entries

\* save_game_data: write the record file, then its entry of the index file
save_game_data(st, pid, data) ==
    LET recs1 == (pid :> data) @@ st.recs
        index == load_search_index(recs1, st.idx)
    IN  [recs |-> recs1,
         idx |-> [exists |-> TRUE, entries |-> (pid :> IndexEntry(data)) @@ index]]

\* variant: original_release_date is left out of the propagated fields
PropagateFields_NoReleaseDate == {"base_id", "title"}

\* propagate_fields of save()
PropagateFields == {"base_id", "title", "original_release_date"}

\* the other fields the basic_info tab writes
LocalFields == {"release_date", "platforms", "specific_id"}

\* dict assignment d[k] = v for every k of upd that is in fields
Patch(d, upd, fields) ==
    [k \in DOMAIN d |-> IF k \in fields /\ k \in DOMAIN upd THEN upd[k] ELSE d[k]]

\* the loop over basic_info["related_skus"]: a sibling is patched and saved
\* when it is not the edited pid and its record file loads
RECURSIVE PropagateTo(_, _, _, _)
PropagateTo(st, skus, pid, propagate_data) ==
    IF skus = <<>> THEN st
    ELSE LET sku == Head(skus)
             st1 == IF sku # pid /\ sku \in DOMAIN st.recs
                    THEN LET sku_data == st.recs[sku]
                         IN  save_game_data(st, sku,
                                 [sku_data EXCEPT !.basic_info =
                                     Patch(@, propagate_data, DOMAIN propagate_data)])
                    ELSE st
         IN  PropagateTo(st1, Tail(skus), pid, propagate_data)

\* variant: the siblings receive every submitted field
SaveBasicInfo_PropagatesAll(st, pid, updates) ==
    LET data == st.recs[pid]
        basic_info == Patch(data.basic_info, updates, PropagateFields \cup LocalFields)
        st1 == save_game_data(st, pid, [data EXCEPT !.basic_info = basic_info])
    IN  PropagateTo(st1, basic_info.related_skus, pid, updates)

\* save(), tab == "basic_info"
SaveBasicInfo(st, pid, updates) ==
    LET data == st.recs[pid]
        basic_info == Patch(data.basic_info, updates, PropagateFields \cup LocalFields)
        propagate_data == [k \in DOMAIN updates \cap PropagateFields |-> updates[k]]
        st1 == save_game_data(st, pid, [data EXCEPT !.basic_info = basic_info])
    IN  IF DOMAIN propagate_data # {}
        THEN PropagateTo(st1, basic_info.related_skus, pid, propagate_data)
        ELSE st1

\* the value the form submits for a field
EditValue(f) ==
    CASE f = "base_id" -> "202"
      [] f = "title" -> "Control (edited)"
      [] f = "original_release_date" -> "2019-08-28"
      [] f = "release_date" -> "2020-01-01"
      [] f = "platforms" -> <<"PC">>
      [] f = "specific_id" -> "202"

\* the field sets of the requests: local fields only, one propagated field,
\* every field of the tab
RequestFields ==
    { {"release_date", "platforms", "specific_id"},
      {"title"},
      {"base_id", "title", "original_release_date",
       "release_date", "platforms", "specific_id"} }

UpdateRequests == {[k \in F |-> EditValue(k)] : F \in RequestFields}

\* save(), tab == "basic_info", up to the save of the edited record: the
\* state in which the request is left when the load or the save of the first
\* sibling raises
SaveEditedOnly(st, pid, updates) ==
    LET data == st.recs[pid]
        basic_info == Patch(data.basic_info, updates, PropagateFields \cup LocalFields)
    IN  save_game_data(st, pid, [data EXCEPT !.basic_info = basic_info])

\* the siblings the request loads and saves
SiblingsToSave(recs, pid, updates) ==
    IF DOMAIN updates \cap PropagateFields = {} THEN {}
    ELSE (SeqToSet(recs[pid].basic_info.related_skus) \ {pid}) \cap DOMAIN recs

\* POST /api/save/<pid> with tab == "basic_info"; sibling_io is the outcome
\* of reading and writing the first sibling's file
SaveBasic(pid, updates, sibling_io) ==
    /\ budget.edits > 0
    \* a file that is not touched has no outcome to draw
    /\ (pid \notin DOMAIN records \/ SiblingsToSave(records, pid, updates) = {})
          => sibling_io = "ok"
    /\ budget' = [budget EXCEPT !.edits = @ - 1]
    /\ IF pid \notin DOMAIN records
       THEN /\ lastOp' = [NoOp EXCEPT !.op = "save_basic", !.pid = pid,
                                      !.status = "404", !.updates = updates]
            /\ UNCHANGED <<records, searchIndex>>
       ELSE IF sibling_io = "raise"
       THEN LET st == SaveEditedOnly([recs |-> records, idx |-> searchIndex],
                                     pid, updates)
            IN  /\ records' = st.recs
                /\ searchIndex' = st.idx
                \* except Exception: the 500 answer
                /\ lastOp' = [NoOp EXCEPT !.op = "save_basic", !.pid = pid,
                                          !.status = "500", !.updates = updates,
                                          !.wrote = TRUE]
       ELSE LET st == SaveBasicInfo([recs |-> records, idx |-> searchIndex],
                                    pid, updates)
            IN  /\ records' = st.recs
                /\ searchIndex' = st.idx
                /\ lastOp' = [NoOp EXCEPT !.op = "save_basic", !.pid = pid,
                                          !.status = "200", !.updates = updates,
                                          !.wrote = TRUE]
    /\ UNCHANGED <<row, storeCache, igdbCache, pc, jm, runInfo, gIn, gOut>>

\* update_igdb: fetch and parse the metadata, rewrite the block and the id of
\* this one record file; returns nothing
update_igdb(recs, pid, id, main_version, processed) ==
    IF main_version
    THEN (pid :> [recs[pid] EXCEPT !.igdb_meta.main = processed,
                                   !.basic_info.base_id = id]) @@ recs
    ELSE (pid :> [recs[pid] EXCEPT !.igdb_meta.specific = processed,
                                   !.basic_info.specific_id = id]) @@ recs

\* POST /api/save/<pid> with tab == "igdb"
SaveIgdb(pid, igdb_id, is_main, igdbOut) ==
    /\ budget.edits > 0
    \* a request that is not sent has no outcome to draw
    /\ (pid \notin DOMAIN records \/ igdb_id = Null \/ igdb_id \in DOMAIN igdbCache)
          => igdbOut = "ok"
    /\ budget' = [budget EXCEPT !.edits = @ - 1]
    /\ LET req == [igdb_id |-> igdb_id, is_main |-> is_main]
           g == get_IGDB_data(igdbCache, igdb_id, FALSE, igdbOut)
       IN  IF pid \notin DOMAIN records
           THEN /\ lastOp' = [NoOp EXCEPT !.op = "save_igdb", !.pid = pid,
                                          !.status = "404", !.updates = req]
                /\ UNCHANGED <<records, igdbCache>>
           ELSE IF igdb_id = Null
           THEN /\ lastOp' = [NoOp EXCEPT !.op = "save_igdb", !.pid = pid,
                                          !.status = "200", !.updates = req]
                /\ UNCHANGED <<records, igdbCache>>
           ELSE IF g.raised
           THEN /\ lastOp' = [NoOp EXCEPT !.op = "save_igdb", !.pid = pid,
                                          !.status = "500", !.updates = req]
                /\ UNCHANGED <<records, igdbCache>>
           ELSE /\ records' = update_igdb(records, pid, igdb_id, is_main,
                                          IgdbToDict(g.data))
                /\ igdbCache' = g.cache
                \* success = update_igdb(...) is None: the 500 answer
                /\ lastOp' = [NoOp EXCEPT !.op = "save_igdb", !.pid = pid,
                                          !.status = "500", !.updates = req,
                                          !.wrote = TRUE]
    /\ UNCHANGED <<row, searchIndex, storeCache, pc, jm, runInfo, gIn, gOut>>

\* POST /api/rebuild_index
RebuildIndex ==
    /\ budget.edits > 0
    /\ budget' = [budget EXCEPT !.edits = @ - 1]
    /\ searchIndex' = build_search_index(records)
    /\ lastOp' = [NoOp EXCEPT !.op = "rebuild_index", !.status = "200"]
    /\ UNCHANGED <<row, records, storeCache, igdbCache, pc, jm, runInfo, gIn, gOut>>

-----------------------------------------------------------------------------
(* The system *)

NoGroups == [done |-> FALSE, groups |-> <<>>]

Init ==
    /\ row = InitialRow
    /\ records = <<>>
    /\ searchIndex = [exists |-> FALSE, entries |-> <<>>]
    /\ storeCache = <<>>
    /\ igdbCache = <<>>
    /\ pc = "idle"
    /\ jm = IdleMaker
    /\ runInfo = NoRun
    /\ lastOp = NoOp
    /\ budget = [edits |-> MaxEdits, runs |-> MaxRuns]
    /\ gIn = <<>>
    /\ gOut = NoGroups

Next ==
    \/ \E ov \in BOOLEAN, out \in StoreAnswers, io \in {"ok", "raise"} :
          ComposeStart(ov, out, io)
    \/ \E m \in SearchResults, io \in {"ok", "raise"} : ComposeSku(m, io)
    \/ \E r \in Rows : CatalogEdit(r)
    \/ \E pid \in Skus, u \in UpdateRequests, io \in {"ok", "raise"} :
          SaveBasic(pid, u, io)
    \/ \E pid \in Skus, id \in SearchResults, main \in BOOLEAN,
          io \in {"ok", "raise"} : SaveIgdb(pid, id, main, io)
    \/ RebuildIndex

Spec == Init /\ [][Next]_vars

\* the same system when the script, once started, goes on through its loop
\* over the SKUs; the requests of the users are not forced
ComposeLoop == \E m \in SearchResults, io \in {"ok", "raise"} : ComposeSku(m, io)

SpecLive == Spec /\ WF_vars(ComposeLoop)

-----------------------------------------------------------------------------
(* Claims about composition *)

EntryPids == SeqToSet(RowPids(row))

\* C1: a run of compose_jsons that follows a completed run over the same
\* entry writes no SKU record file: every SKU is skipped.
C1_SecondRunWritesNothing == runInfo.repeat => runInfo.writes = 0

C1_Witness ==
    /\ runInfo.repeat
    /\ pc = "done"
    /\ lastOp.op = "compose_sku"
    /\ Len(jm._pids) >= 2
    /\ SeqToSet(jm._pids) \subseteq DOMAIN records

ComposeOps == {"compose_start", "compose_sku"}

EditorOps == {"save_basic", "save_igdb"}

\* C2: whatever the overwrite flag, a step of compose_jsons leaves every
\* record file that exists as it is and writes at most the file of the SKU
\* it is at, which was absent; a record file that exists is changed by the
\* editing UI only, and no record file is ever removed.
C2_ComposeKeepsExistingRecords ==
    [][ /\ \A p \in DOMAIN records : p \in DOMAIN records'
        /\ lastOp'.op \in ComposeOps =>
              /\ \A p \in DOMAIN records : records'[p] = records[p]
              /\ \A p \in DOMAIN records' \ DOMAIN records :
                    lastOp'.op = "compose_sku" /\ p = lastOp'.pid
        /\ (\E p \in DOMAIN records : records'[p] # records[p]) =>
              lastOp'.op \in EditorOps
      ]_vars

C2_Witness ==
    /\ jm._overwrite
    /\ pc = "done"
    /\ runInfo.writes >= 1
    /\ runInfo.writes < Len(jm._pids)

\* C3: when the storefront fetch of one SKU fails, compose_jsons is not
\* aborted by it, and a run that ends has written a record for every SKU of
\* the entry.
C3_StoreFetchFailureIsolated ==
    runInfo.failed # {} =>
        /\ runInfo.raisedBy # "store"
        /\ pc = "done" => SeqToSet(jm._pids) \subseteq DOMAIN records

\* C4: a failed metadata fetch (canonical or SKU-specific) never makes
\* compose_jsons raise.
C4_MetadataFetchFailureIsolated == runInfo.raisedBy # "igdb"

\* C5: once compose_jsons has completed over the entry as the catalog holds
\* it, every record of a SKU of the entry lists exactly the entry's other
\* SKUs, in order, as related_skus.
C5_RelatedSkusInvariant ==
    (pc = "done" /\ jm._row = row) =>
        \A p \in EntryPids \cap DOMAIN records :
            records[p].basic_info.related_skus
                = SelectSeq(RowPids(row), LAMBDA x : x # p)

-----------------------------------------------------------------------------
(* Claims about the editing UI *)

SharedFields == {"base_id", "title", "original_release_date"}

SavedBasic ==
    /\ lastOp.op = "save_basic"
    /\ lastOp.status = "200"
    /\ DOMAIN lastOp.updates \cap SharedFields # {}

HoldsSubmitted(s) ==
    \A f \in DOMAIN lastOp.updates \cap SharedFields :
        records[s].basic_info[f] = lastOp.updates[f]

\* C6 as stated: after a successful basic_info save of SKU X that carries
\* base_id, title or original_release_date, every SKU listed in X's
\* related_skus has a stored record holding the submitted values.
C6_EverySiblingHoldsSubmitted ==
    SavedBasic =>
        \A s \in SeqToSet(records[lastOp.pid].basic_info.related_skus) :
            s \in DOMAIN records /\ HoldsSubmitted(s)

\* C6 amended: after such a save, every SKU listed in X's related_skus whose
\* record file exists holds the submitted values; a listed SKU without a
\* record file is skipped.
C6_ExistingSiblingsHoldSubmitted ==
    SavedBasic =>
        \A s \in SeqToSet(records[lastOp.pid].basic_info.related_skus) :
            s \in DOMAIN records => HoldsSubmitted(s)

C6_Witness ==
    /\ SavedBasic
    /\ "original_release_date" \in DOMAIN lastOp.updates
    /\ \E s \in SeqToSet(records[lastOp.pid].basic_info.related_skus) :
          /\ s \in DOMAIN records
          /\ HoldsSubmitted(s)
          /\ records[s].basic_info.original_release_date # RowRelease

\* C7: a basic_info save of SKU X creates and removes no record, leaves every
\* record other than X that X's related_skus does not list as it is, and
\* changes in a listed sibling nothing but the submitted fields among
\* base_id, title and original_release_date.
C7_PropagationFrame ==
    [][ lastOp'.op = "save_basic" =>
          LET X == lastOp'.pid
              sent == DOMAIN lastOp'.updates \cap SharedFields
          IN  /\ DOMAIN records' = DOMAIN records
              /\ \A p \in DOMAIN records \ {X} :
                    IF X \in DOMAIN records
                       /\ p \in SeqToSet(records[X].basic_info.related_skus)
                    THEN /\ DOMAIN records'[p] = DOMAIN records[p]
                         /\ records'[p].igdb_meta = records[p].igdb_meta
                         /\ DOMAIN records'[p].basic_info = DOMAIN records[p].basic_info
                         /\ \A f \in DOMAIN records[p].basic_info \ sent :
                               records'[p].basic_info[f] = records[p].basic_info[f]
                    ELSE records'[p] = records[p]
      ]_vars

C7_Witness ==
    /\ SavedBasic
    /\ {"title", "release_date"} \subseteq DOMAIN lastOp.updates
    /\ \E s \in SeqToSet(records[lastOp.pid].basic_info.related_skus) :
          /\ s \in DOMAIN records
          /\ records[s].basic_info.title = lastOp.updates.title
          /\ records[s].basic_info.release_date # lastOp.updates.release_date

EntryComplete ==
    /\ EntryPids \subseteq DOMAIN records
    /\ \A p \in EntryPids :
          SeqToSet(records[p].basic_info.related_skus) = EntryPids \ {p}

SiblingsAgree ==
    \A p, q \in EntryPids \cap DOMAIN records : \A f \in SharedFields :
        records[p].basic_info[f] = records[q].basic_info[f]

\* C8: when the records of all SKUs of the entry exist and agree on base_id,
\* title and original_release_date, they still agree after any operation of
\* the editing UI.
C8_SiblingAgreement ==
    [][ (lastOp'.op \in EditorOps /\ EntryComplete /\ SiblingsAgree)
            => SiblingsAgree' ]_vars

\* C29: a request to POST /api/save/<pid> that answers 404 or 500 has
\* changed no record file and no entry of the search index.
C29_FailedSaveChangesNothing ==
    [][ (lastOp'.op \in EditorOps /\ lastOp'.status \in {"404", "500"})
            => (records' = records /\ searchIndex' = searchIndex) ]_vars

\* C30: a save on the igdb tab with an igdb_id answers success exactly when
\* update_igdb rewrote the record (the igdb_meta block and the id field the
\* request names), and answers 500 only when the record is left as it was.
C30_UpdateOutcomeReported ==
    [][ (/\ lastOp'.op = "save_igdb"
         /\ lastOp'.status # "404"
         /\ lastOp'.updates.igdb_id # Null)
            => LET X == lastOp'.pid
                   id == lastOp'.updates.igdb_id
                   rewritten ==
                       /\ records' = update_igdb(records, X, id, lastOp'.updates.is_main,
                                                 IF lastOp'.updates.is_main
                                                 THEN records'[X].igdb_meta.main
                                                 ELSE records'[X].igdb_meta.specific)
                       /\ IF lastOp'.updates.is_main
                          THEN records'[X].basic_info.base_id = id
                          ELSE records'[X].basic_info.specific_id = id
               IN  /\ (lastOp'.status = "200") = rewritten
                   /\ lastOp'.status = "500" => records' = records ]_vars

-----------------------------------------------------------------------------
(* The SKU grouper on its own: every bounded dict, in every insertion order *)

GroupSkus == {AllSkuNames[i] : i \in 1..MaxGroupSkus}

GroupPlatLists ==
    { <<>>, <<"XCloud">>, <<"pc">>, <<"PC", "xcloud">>, <<"xbox">>, <<"pc", "Xbox">> }

\* the orders in which some of the SKUs can be inserted
InsertionOrders ==
    {o \in UNION {[1..n -> GroupSkus] : n \in 0..MaxGroupSkus} :
        \A i, j \in 1..Len(o) : o[i] = o[j] => i = j}

GroupInputs ==
    {[i \in 1..Len(o) |-> <<o[i], a[o[i]]>>] :
        o \in InsertionOrders, a \in [GroupSkus -> GroupPlatLists]}

InitGroup ==
    /\ row = InitialRow
    /\ records = <<>>
    /\ searchIndex = [exists |-> FALSE, entries |-> <<>>]
    /\ storeCache = <<>>
    /\ igdbCache = <<>>
    /\ pc = "idle"
    /\ jm = IdleMaker
    /\ runInfo = NoRun
    /\ lastOp = NoOp
    /\ budget = [edits |-> 0, runs |-> 0]
    /\ gIn \in GroupInputs
    /\ gOut = NoGroups

GroupCall ==
    /\ ~gOut.done
    /\ gOut' = [done |-> TRUE, groups |-> group_skus_by_platform(gIn)]
    /\ UNCHANGED <<mainVars, gIn>>

NextGroup == GroupCall

SpecGroup == InitGroup /\ [][NextGroup]_vars

InputSkus == {gIn[i][1] : i \in 1..Len(gIn)}

PlatformsOf(sku) == gIn[CHOOSE i \in 1..Len(gIn) : gIn[i][1] = sku][2]

StreamingMarkers == {"xcloud", "XCloud", "XCLOUD"}

\* the platform set of a list: lowercased, the streaming marker left out
NormalisedPlatforms(pl) == {Lower(x) : x \in SeqToSet(pl) \ StreamingMarkers}

Together(a, b) ==
    \E g \in 1..Len(gOut.groups) : {a, b} \subseteq SeqToSet(gOut.groups[g])

\* C9: two SKUs of the input are in the same output group exactly when their
\* platform sets, lowercased and without the streaming marker, are equal; and
\* every input SKU is at exactly one place of the output, which holds no other
\* identifier.
C9_GroupsAreEquivalenceClasses ==
    gOut.done =>
        /\ \A a, b \in InputSkus :
              Together(a, b)
                  <=> NormalisedPlatforms(PlatformsOf(a)) = NormalisedPlatforms(PlatformsOf(b))
        /\ \A a \in InputSkus :
              Cardinality({<<g, k>> \in (1..Len(gOut.groups)) \X (1..MaxGroupSkus) :
                              k <= Len(gOut.groups[g]) /\ gOut.groups[g][k] = a}) = 1
        /\ \A g \in 1..Len(gOut.groups) : SeqToSet(gOut.groups[g]) \subseteq InputSkus

C9_Witness ==
    /\ gOut.done
    /\ Len(gIn) = 3
    /\ \E a, b, c \in InputSkus :
          /\ a # b
          /\ PlatformsOf(a) = <<"pc">>
          /\ PlatformsOf(b) = <<"PC", "xcloud">>
          /\ PlatformsOf(c) = <<"XCloud">>
          /\ Together(a, b)
          /\ ~Together(a, c)

\* the items of the dict in ascending SKU order
ItemsBySku(d) ==
    [i \in 1..Len(d) |->
        d[CHOOSE j \in 1..Len(d) :
            Cardinality({k \in 1..Len(d) : SkuOrd(d[k][1]) < SkuOrd(d[j][1])}) = i - 1]]

\* C10: every output group is in ascending SKU order, the groups are in
\* ascending order of their smallest member, and the output is the one the
\* same mapping gives when its SKUs are supplied in ascending order.
C10_GroupsSortedAndOrderFree ==
    gOut.done =>
        /\ \A g \in 1..Len(gOut.groups) : \A k \in 1..(Len(gOut.groups[g]) - 1) :
              SkuOrd(gOut.groups[g][k]) < SkuOrd(gOut.groups[g][k + 1])
        /\ \A g \in 1..(Len(gOut.groups) - 1) :
              SkuOrd(gOut.groups[g][1]) < SkuOrd(gOut.groups[g + 1][1])
        /\ gOut.groups = group_skus_by_platform(ItemsBySku(gIn))

C10_Witness ==
    /\ gOut.done
    /\ gIn = << <<"C", <<"xbox">> >>, <<"B", <<"pc">> >>, <<"A", <<"pc">> >> >>
    /\ gOut.groups = << <<"A", "B">>, <<"C">> >>

\* a step of compose_jsons that ran the title search for a SKU
SearchedSku == lastOp.op = "compose_sku" /\ DOMAIN lastOp.updates = {"match"}

\* C18: when the title search gives no match for a SKU, the record written
\* has the entry's canonical id as specific_id and the normalized metadata of
\* that id as igdb_meta.specific; with a match, specific_id is the matched
\* id. A missing match alone never keeps the record from being written: with
\* the canonical document at hand (no overwrite) the SKU is written.
C18_FallbackToCanonical ==
    [][SearchedSku' =>
         LET m == lastOp'.updates.match
             pid == lastOp'.pid
         IN  /\ lastOp'.wrote =>
                   IF m = Null
                   THEN /\ records'[pid].basic_info.specific_id = jm._row.igdb
                        /\ records'[pid].igdb_meta.specific
                              = IgdbToDict(RawIgdbDoc(jm._row.igdb))
                   ELSE records'[pid].basic_info.specific_id = m
             /\ (m = Null /\ ~jm._overwrite) => lastOp'.wrote]_vars

C18_Witness ==
    /\ SearchedSku
    /\ lastOp.wrote
    /\ lastOp.updates.match = Null
    /\ records[lastOp.pid].basic_info.specific_id = "101"
    /\ records[lastOp.pid].igdb_meta.specific.name = IgdbName("101")

\* the date part of a raw storefront document's releaseDate, null without one
StoreReleaseDate(doc) ==
    IF doc.releaseDate # Null THEN DatePart(doc.releaseDate) ELSE Null

\* C15: the record compose_jsons writes for a SKU holds, as
\* basic_info.release_date, the date part of the releaseDate of the SKU's raw
\* storefront document; it is null only when the document has no releaseDate.
C15_StoreReleaseDate ==
    [][(lastOp'.op = "compose_sku" /\ lastOp'.wrote) =>
          records'[lastOp'.pid].basic_info.release_date
              = StoreReleaseDate(jm._store_data_list[jm.i])]_vars

\* what a search request reads (the index file, or a fresh build when there
\* is none) is the mapping of the record store
IndexCurrent ==
    load_search_index(records, searchIndex) = build_search_index(records).entries

\* C20: after the writes to the record store have come to an end, the search
\* index maps exactly the SKU ids of the record store to each record's
\* current title and store_title, without a rebuild being asked for.
C20_IndexEventuallyCurrent == <>[]IndexCurrent

-----------------------------------------------------------------------------
(* Availability reconciliation, checked on bounded raw documents *)

\* the state of the pipeline and the UIs while a pure function is checked
PipelineIdle ==
    /\ row = InitialRow
    /\ records = <<>>
    /\ searchIndex = [exists |-> FALSE, entries |-> <<>>]
    /\ storeCache = <<>>
    /\ igdbCache = <<>>
    /\ pc = "idle"
    /\ jm = IdleMaker
    /\ runInfo = NoRun
    /\ lastOp = NoOp
    /\ budget = [edits |-> 0, runs |-> 0]

UltimateId == "CFQ7TTC0KHS0"
EaPlayId == "CFQ7TTC0K5DH"

\* keys of passMetadataByPassProductId: Ultimate, EA Play, Essential, PC and
\* an identifier the parser does not know
PassIds == {UltimateId, EaPlayId, "CFQ7TTC0K5DJ", "CFQ7TTC0KGQ8", "CFQ7TTC0ZZZZ"}

PassMeta(entry, exit) == [kind |-> "dict", entryDateUTC |-> entry, exitDateUTC |-> exit]

\* values of passMetadataByPassProductId: a mapping with entry and exit
\* timestamps, or null
PassMetas ==
    { NoData,
      PassMeta("2023-01-01T00:00:00Z", Null),
      PassMeta("2023-03-01T08:00:00Z", Null),
      PassMeta("2023-03-01T08:00:00Z", "2024-06-30T00:00:00Z"),
      PassMeta(Null, Null),
      PassMeta("soon", Null) }

\* the dicts with at most MaxPasses keys, in every key order
PassDicts ==
    UNION { {d \in [1..n -> PassIds \X PassMetas] :
                \A i, j \in 1..n : i # j => d[i][1] # d[j][1]} : n \in 0..MaxPasses }

AvailInputs ==
    [publisherName : {"Electronic Arts", "Remedy Entertainment"},
     availableOn : {<<"pc">>, <<"PC">>, <<"XboxSeriesX">>},
     passes : PassDicts]

NoResult == [done |-> FALSE]

InitAvail ==
    /\ PipelineIdle
    /\ gIn \in AvailInputs
    /\ gOut = NoResult

AvailCall ==
    /\ ~gOut.done
    /\ gOut' = [done |-> TRUE, out |-> get_availabilities(gIn)]
    /\ UNCHANGED <<mainVars, gIn>>

SpecAvail == InitAvail /\ [][AvailCall]_vars

\* the tier names the raw document resolves to, read off the input: its known
\* keys up to the first one whose meta is no mapping
RECURSIVE RawTiers(_)
RawTiers(items) ==
    IF items = <<>> THEN {}
    ELSE IF Head(items)[1] \notin DOMAIN decryption THEN RawTiers(Tail(items))
    ELSE IF Head(items)[2].kind = "none" THEN {}
    ELSE {decryption[Head(items)[1]]} \cup RawTiers(Tail(items))

EaCase ==
    /\ gOut.done
    /\ gIn.publisherName = "Electronic Arts"
    /\ Cardinality(RawTiers(gIn.passes) \cap {"Ultimate", "EA Play"}) = 1

BothTiersIdentical ==
    /\ {"Ultimate", "EA Play"} \subseteq DOMAIN gOut.out.tiers
    /\ gOut.out.tiers["EA Play"] = gOut.out.tiers["Ultimate"]
    /\ ("pc" \in SeqToSet(gIn.availableOn) /\ "PC" \notin RawTiers(gIn.passes))
          => /\ "PC" \in DOMAIN gOut.out.tiers
             /\ gOut.out.tiers["PC"] = gOut.out.tiers["EA Play"]

RawAdded ==
    {DatePart(gIn.passes[i][2].entryDateUTC) :
        i \in {j \in 1..Len(gIn.passes) :
                  /\ gIn.passes[j][1] \in DOMAIN decryption
                  /\ gIn.passes[j][2].kind = "dict"
                  /\ gIn.passes[j][2].entryDateUTC # Null}}

UltimateHasAdded ==
    \E i \in 1..Len(gIn.passes) :
        /\ gIn.passes[i][1] = UltimateId
        /\ gIn.passes[i][2].kind = "dict"
        /\ gIn.passes[i][2].entryDateUTC # Null

\* C12: when reconciliation raises no exception and Ultimate has an added
\* date in the raw document, the returned Ultimate.added is the earliest added
\* date over all resolved tiers, hence not later than any tier's added date.
C12_UltimateClamp ==
    (gOut.done /\ gOut.out.error = Null /\ UltimateHasAdded) =>
        /\ \A d \in RawAdded : strptime(gOut.out.tiers["Ultimate"].added) <= strptime(d)
        /\ gOut.out.tiers["Ultimate"].added \in RawAdded
        /\ \A n \in DOMAIN gOut.out.tiers :
              gOut.out.tiers[n].added # Null =>
                  strptime(gOut.out.tiers["Ultimate"].added)
                      <= strptime(gOut.out.tiers[n].added)

C12_Witness ==
    /\ gOut.done
    /\ gOut.out.error = Null
    /\ \E i, j \in 1..Len(gIn.passes) :
          /\ gIn.passes[i] = <<UltimateId, PassMeta("2023-03-01T08:00:00Z", Null)>>
          /\ gIn.passes[j] = <<"CFQ7TTC0K5DJ", PassMeta("2023-01-01T00:00:00Z", Null)>>
    /\ gOut.out.tiers["Ultimate"].added = "2023-01-01"
    /\ gOut.out.tiers["Essential"].added = "2023-01-01"

\* the orders of n keys: the bijections of 1..n
KeyOrders(n) == {f \in [1..n -> 1..n] : \A i, j \in 1..n : i # j => f[i] # f[j]}

\* C13: for a raw table of a publisher other than Electronic Arts that has
\* no EA Play key, get_availabilities returns the same mapping for every
\* order of the table's keys.
C13_KeyOrderInvariance ==
    (/\ gOut.done
     /\ gIn.publisherName # "Electronic Arts"
     /\ \A i \in 1..Len(gIn.passes) : gIn.passes[i][1] # EaPlayId)
        => \A f \in KeyOrders(Len(gIn.passes)) :
              get_availabilities(
                  [gIn EXCEPT !.passes = [i \in 1..Len(gIn.passes) |-> gIn.passes[f[i]]]])
                = gOut.out

\* C14: when an exception occurs during reconciliation, the returned dict has
\* the single key error, holding a string: no resolved tier remains in it.
C14_ErrorOnly ==
    (gOut.done /\ gOut.out.error # Null) => ResultKeys(gOut.out) = {"error"}

\* the title is available on PC, in whatever letter case the storefront
\* reports the platform
AvailableOnPc == \E i \in 1..Len(gIn.availableOn) : Lower(gIn.availableOn[i]) = "pc"

\* C21: with publisher "Electronic Arts", no exception, EA Play in the
\* returned table, PC not resolved from the raw document and the title
\* available on PC in any letter case, the returned table holds a PC tier
\* whose {added, removed} equals EA Play's.
C21_EaRulePc ==
    (/\ gOut.done
     /\ gIn.publisherName = "Electronic Arts"
     /\ gOut.out.error = Null
     /\ "EA Play" \in DOMAIN gOut.out.tiers
     /\ "PC" \notin RawTiers(gIn.passes)
     /\ AvailableOnPc)
        => /\ "PC" \in DOMAIN gOut.out.tiers
           /\ gOut.out.tiers["PC"] = gOut.out.tiers["EA Play"]

\* the positions of the raw document's keys that the lookup table knows
KnownKeys == {i \in 1..Len(gIn.passes) : gIn.passes[i][1] \in DOMAIN decryption}

\* the date part of a raw timestamp, null when it is absent
RawDate(ts) == IF ts # Null THEN DatePart(ts) ELSE Null

\* the tiers of the raw document with the dates it reports for them
RawTable ==
    {<<decryption[gIn.passes[i][1]],
       [added |-> RawDate(gIn.passes[i][2].entryDateUTC),
        removed |-> RawDate(gIn.passes[i][2].exitDateUTC)]>> : i \in KnownKeys}

\* the returned table is the raw table, apart from Ultimate.added, which is
\* the raw one or one of the raw added dates
TableAsReported ==
    /\ DOMAIN gOut.out.tiers = {decryption[gIn.passes[i][1]] : i \in KnownKeys}
    /\ \A i \in KnownKeys : gIn.passes[i][2].kind = "dict"
    /\ \A e \in RawTable :
          /\ gOut.out.tiers[e[1]].removed = e[2].removed
          /\ \/ gOut.out.tiers[e[1]].added = e[2].added
             \/ e[1] = "Ultimate" /\ gOut.out.tiers[e[1]].added \in RawAdded

C27_ClampFrame ==
    (gOut.done /\ \A i \in KnownKeys : gIn.passes[i][2].kind = "dict")
        => \A e \in RawTable :
              e[1] # "Ultimate" =>
                  /\ e[1] \in DOMAIN gOut.out.tiers
                  /\ gOut.out.tiers[e[1]] = e[2]

-----------------------------------------------------------------------------
(* MetadataParser, checked on bounded raw documents *)

Absent == [t |-> "absent"]

\* the dict whose keys are the fields of r that are not Absent
DictOf(r) == JDict([k \in {f \in DOMAIN r : r[f].t # "absent"} |-> r[k]])

\* entries of involved_companies: role flag and company, each present,
\* missing or null
CompanyEntries ==
    {DictOf([developer |-> d, company |-> c]) :
        d \in {JBool(TRUE)},
        c \in {Absent, JNull, JDict(<<>>), DictOf([name |-> JNull]),
               DictOf([name |-> JStr("Remedy Entertainment")])}}
    \cup {DictOf([developer |-> Absent, company |-> JNull])}

CompanyLists ==
    {Absent, JNull, JList(<<>>)}
    \cup {JList(<<c>>) : c \in CompanyEntries}
    \cup {JList(<<DictOf([developer |-> JBool(TRUE),
                          company |-> DictOf([name |-> JStr("Remedy Entertainment")])]),
                   DictOf([developer |-> JBool(TRUE),
                           company |-> DictOf([name |-> JStr("505 Games")])])>>)}

GenreLists ==
    {Absent, JNull, JList(<<>>),
     JList(<<DictOf([name |-> JStr("Shooter")])>>),
     JList(<<JDict(<<>>), DictOf([name |-> JStr("Shooter")])>>),
     JList(<<DictOf([name |-> JStr("Shooter")]), DictOf([name |-> JStr("Adventure")])>>),
     JList(<<JInt(5)>>)}

GeneralDocs ==
    {Absent, JNull}
    \cup {DictOf([id |-> i[1], name |-> i[2], game_type |-> g,
                  involved_companies |-> c, genres |-> n]) :
            i \in {<<Absent, Absent>>, <<JStr("101"), JStr("Control")>>},
            g \in {Absent, JInt(0)},
            c \in CompanyLists,
            n \in GenreLists}

\* entries of release_dates: date, platform and status each present, missing
\* or null
ReleaseEntries ==
    {DictOf([date |-> e[1], platform |-> e[2], status |-> e[3]]) :
        e \in { <<JInt(1577836800), JInt(6), JInt(6)>>,
                <<JInt(1577836800), JInt(6), JInt(3)>>,
                <<JInt(1566864000), JInt(6), JInt(3)>>,
                <<Absent, JInt(6), JInt(6)>>,
                <<JNull, JInt(6), JInt(6)>>,
                <<JInt(1566900000), Absent, Absent>>,
                <<JInt(1566900000), JNull, JInt(6)>>,
                <<JInt(1566900000), JInt(6), Absent>>,
                <<JInt(1566864000), JInt(6), JNull>>,
                <<JInt(1566864000), JInt(49), JInt(6)>> }}

ReleaseLists ==
    {Absent, JNull}
    \cup UNION { {JList(l) : l \in [1..n -> ReleaseEntries]} : n \in 0..MaxReleaseEntries }

\* the offsets of the local time of the process from UTC, in seconds: UTC
\* and UTC-5
UtcOffsets == {0, -18000}

\* the raw documents (the content of the top-level dict) with the offset of
\* the process: every general section with an empty release list, and every
\* release list with a well-formed or missing general section
IgdbInputs ==
    {[data |-> DictOf([general |-> g, release_dates |-> r]).d, tz |-> 0] :
        g \in GeneralDocs, r \in {Absent, JNull, JList(<<>>)}}
    \cup {[data |-> DictOf([general |-> g, release_dates |-> r]).d, tz |-> z] :
            g \in {Absent, DictOf([id |-> JStr("101"), name |-> JStr("Control")])},
            r \in ReleaseLists, z \in UtcOffsets}

InitIgdbParse ==
    /\ PipelineIdle
    /\ gIn \in IgdbInputs
    /\ gOut = NoResult

IgdbParseCall ==
    /\ ~gOut.done
    /\ gOut' = [done |-> TRUE, out |-> IGDBParser_to_dict(gIn.data, gIn.tz)]
    /\ UNCHANGED <<mainVars, gIn>>

SpecIgdbParse == InitIgdbParse /\ [][IgdbParseCall]_vars

\* C19: on every raw metadata document in which some of the expected keys are
\* missing or hold null, to_dict does not raise.
C19_ParserNeverRaises == gOut.done => ~gOut.out.raised

\* the release entries of the raw document
RawReleases == Get(gIn.data, "release_dates", JList(<<>>)).l

\* the timestamps of the dated entries among the positions I
Timestamps(I) ==
    {RawReleases[i].d["date"].i :
        i \in {j \in I : Truthy(Get(RawReleases[j].d, "date", JNull))}}

\* the entries of a tracked platform that belong to a bucket: status 3 for
\* early access, any other or no status for 1.0
BucketEntries(name, slot) ==
    {i \in 1..Len(RawReleases) :
        /\ PLATFORM_NAMES(Get(RawReleases[i].d, "platform", JNull)) = name
        /\ (slot = "release_date_ea")
              = (Get(RawReleases[i].d, "status", JNull) = JInt(3))}

\* the calendar date (UTC) of the earliest of a set of timestamps
EarliestDate(T) == IF T = {} THEN Null ELSE _fmt_date(Min(T), 0)

\* C24: each bucket of each tracked platform holds the calendar date (UTC)
\* of the minimum timestamp among the dated entries of that platform and
\* bucket, null exactly when there is none, whatever the order of the
\* entries; release_date is the date of the minimum timestamp over all dated
\* entries.
C24_ReleaseDateBuckets ==
    (gOut.done /\ ~gOut.out.raised /\ Get(gIn.data, "release_dates", JNull).t = "list")
        => /\ \A name \in DOMAIN gOut.out.v.release_dates.platforms :
                \A slot \in {"release_date_ea", "release_date_1_0"} :
                    gOut.out.v.release_dates.platforms[name][slot]
                        = EarliestDate(Timestamps(BucketEntries(name, slot)))
           /\ gOut.out.v.release_dates.release_date
                 = EarliestDate(Timestamps(1..Len(RawReleases)))

\* the names of the raw documents in Python string order
NameOrder == <<"505 Games", "Adventure", "Remedy Entertainment", "Shooter">>

NameRank(n) == CHOOSE i \in 1..Len(NameOrder) : NameOrder[i] = n

\* C25: in the dict to_dict produces, developers (and publishers) are sorted
\* and duplicate-free and genres (and themes, game_modes,
\* player_perspectives) are in sorted order, for every order of the items in
\* the raw document.
C25_SortedNameLists ==
    (gOut.done /\ ~gOut.out.raised) =>
        /\ \A i, j \in 1..Len(gOut.out.v.developers) :
              i < j => NameRank(gOut.out.v.developers[i]) < NameRank(gOut.out.v.developers[j])
        /\ \A i, j \in 1..Len(gOut.out.v.genres) :
              i < j => NameRank(gOut.out.v.genres[i]) <= NameRank(gOut.out.v.genres[j])

-----------------------------------------------------------------------------
(* TitleMatcher, checked on bounded titles and candidate lists *)

\* the answers of the search request with at most MaxCandidates candidates:
\* names "ab", "AB - pc", "ab cd", "cb", "ab(c)", "PC"; first_release_date
\* missing, or a day of 2019 or 2021; ids by position
CandidateLists ==
    LET CandidateNames ==
            { <<"a", "b">>, <<"A", "B", " ", "-", " ", "p", "c">>,
              <<"a", "b", " ", "c", "d">>, <<"c", "b">>, <<"a", "b", "(c)">>,
              <<"P", "C">> }
        CandidateDates == {Absent, JInt(1566864000), JInt(1609459200)}
        CandidateIds == <<"201", "202", "203", "204">>
    IN  UNION { { [i \in 1..n |->
                     DictOf([id |-> JStr(CandidateIds[i]), name |-> JStr(l[i][1]),
                             first_release_date |-> l[i][2]]).d] :
                  l \in [1..n -> CandidateNames \X CandidateDates] } :
                n \in 0..MaxCandidates }

\* the calls of search_igdb_best: the store titles "ab", "ab PC", "ab cd",
\* the release date of the row, and the outcome of the search request
MatchInputs ==
    [title : { <<"a", "b">>, <<"a", "b", " ", "P", "C">>, <<"a", "b", " ", "c", "d">> },
     release_date : {Null, "2019-08-27"},
     response : {[failed |-> TRUE, data |-> <<>>]}
                \cup {[failed |-> FALSE, data |-> l] : l \in CandidateLists}]

InitMatch ==
    /\ PipelineIdle
    /\ gIn \in MatchInputs
    /\ gOut = NoResult

MatchCall ==
    /\ ~gOut.done
    /\ gOut' = [done |-> TRUE,
                out |-> search_igdb_best(gIn.title, gIn.release_date, gIn.response)]
    /\ UNCHANGED <<mainVars, gIn>>

SpecMatch == InitMatch /\ [][MatchCall]_vars

\* the score by which _igdb_search_core ranks candidate i of the answer
TotalOf(i) ==
    CandidateTotal(clean_title(gIn.title),
                   IF gIn.release_date # Null THEN YearOfDate(gIn.release_date) ELSE 0,
                   gIn.response.data[i])

\* the scores of all the candidates of the answer, by position
Totals == [i \in 1..Len(gIn.response.data) |-> TotalOf(i)]

ExactMatchSameYear(i) ==
    /\ Strip(LowerStr(clean_title(gIn.response.data[i]["name"].s)))
          = Strip(LowerStr(clean_title(gIn.title)))
    /\ gIn.release_date # Null
    /\ igdb_year(gIn.response.data[i]) = YearOfDate(gIn.release_date)

\* C16: the final score of a candidate (similarity subtotal after bonus and
\* length penalty, plus year_score) never exceeds 100, and a candidate whose
\* cleaned name equals the cleaned query and whose release year equals the
\* target year scores exactly 100.
C16_ScoreBound ==
    gOut.done =>
        LET totals == Totals
        IN  \A i \in DOMAIN totals :
                ~totals[i].raised =>
                    /\ totals[i].score.n <= 100 * totals[i].score.d
                    /\ ExactMatchSameYear(i) =>
                          totals[i].score.n = 100 * totals[i].score.d

\* the candidates whose score no candidate of the answer exceeds
TopCandidates(totals) ==
    {i \in DOMAIN totals :
        \A j \in DOMAIN totals :
            totals[j].score.n * totals[i].score.d
                <= totals[i].score.n * totals[j].score.d}

\* C17: search_igdb_best returns the id of the first candidate, in list
\* order, that attains the maximum score when that maximum is at least 80,
\* and null when the maximum is below 80 or the list is empty.
C17_FirstBestAboveThreshold ==
    (gOut.done /\ ~gIn.response.failed) =>
        LET totals == Totals
        IN  (\A i \in DOMAIN totals : ~totals[i].raised)
                => /\ ~gOut.out.raised
                   /\ IF gIn.response.data = <<>> THEN gOut.out.id = Null
                      ELSE LET first == Min(TopCandidates(totals))
                               top == totals[first].score
                           IN  gOut.out.id = IF top.n >= 80 * top.d
                                             THEN gIn.response.data[first]["id"].s
                                             ELSE Null

C17_Witness ==
    /\ gOut.done
    /\ ~gOut.out.raised
    /\ Len(gIn.response.data) = 2
    /\ TopCandidates(Totals) = {1, 2}
    /\ gOut.out.id = "201"

\* C23: every search call is followed by the fixed delay before
\* search_igdb_best returns, on every path: candidates, an empty result list
\* and a failed request.
C23_DelayAfterSearch ==
    (gOut.done /\ ~gOut.out.raised) => gOut.out.slept

\* C28: for every non-empty candidate list the search answers,
\* search_igdb_best returns an id or null and never raises, also when the
\* cleaned name of a candidate is the empty string.
C28_MatcherNeverRaises ==
    (gOut.done /\ ~gIn.response.failed /\ gIn.response.data # <<>>)
        => ~gOut.out.raised

-----------------------------------------------------------------------------
(* Two composers on one record directory: the loop of compose_jsons, with   *)
(* the existence check and the write of a record as separate steps          *)

Composers == {1, 2}

\* the SKU lists of two entries that share a SKU, the record files that
\* exist at the start, and how the composers run: as processes of their own,
\* or as coroutines of one event loop
RaceInputs ==
    [pids : {l \in [Composers -> UNION {[1..n -> Skus] : n \in 1..MaxEntrySkus}] :
                /\ \A c \in Composers : \A i, j \in 1..Len(l[c]) :
                      i # j => l[c][i] # l[c][j]
                /\ SeqToSet(l[1]) \cap SeqToSet(l[2]) # {}},
     existing : {{}, {"A"}},
     mode : {"processes", "tasks"}]

\* each composer is before its loop; gOut holds the record directory, each
\* composer's position, the SKUs it wrote and the coroutine that runs
InitRace ==
    /\ PipelineIdle
    /\ gIn \in RaceInputs
    /\ gOut = [files |-> [p \in gIn.existing |-> [pid |-> p, related_skus |-> <<>>]],
               at |-> [c \in Composers |-> 1],
               pc |-> [c \in Composers |-> "check"],
               wrote |-> [c \in Composers |-> {}],
               running |-> 0]

\* variant: the loop body suspends between the check and the write, so the
\* other coroutine may run at any point
MayStep_Suspends(c) == c \in Composers

\* the loop body holds no await: a coroutine that has entered its loop runs
\* until the loop ends; processes run freely
MayStep(c) == gIn.mode = "processes" \/ gOut.running \in {0, c}

\* the coroutine that runs after composer c has moved to position i
RunningAfter(c, i) ==
    IF gIn.mode = "tasks" /\ i <= Len(gIn.pids[c]) THEN c ELSE 0

\* if os.path.exists(f"mnt/xbox/gp_new/{pid}.json"): continue
RaceCheck(c) ==
    /\ MayStep(c)
    /\ gOut.pc[c] = "check"
    /\ gOut.at[c] <= Len(gIn.pids[c])
    /\ gOut' = IF RecordExists(gOut.files, gIn.pids[c][gOut.at[c]], FALSE)
               THEN [gOut EXCEPT !.at[c] = @ + 1,
                                 !.running = RunningAfter(c, gOut.at[c] + 1)]
               ELSE [gOut EXCEPT !.pc[c] = "write",
                                 !.running = RunningAfter(c, gOut.at[c])]
    /\ UNCHANGED <<mainVars, gIn>>

\* with open(f"mnt/xbox/gp_new/{pid}.json", "w") as f: json.dump(data, f)
RaceWrite(c) ==
    /\ MayStep(c)
    /\ gOut.pc[c] = "write"
    /\ LET pid == gIn.pids[c][gOut.at[c]]
           data == [pid |-> pid, related_skus |-> RelatedSkus(gIn.pids[c], pid)]
       IN  gOut' = [gOut EXCEPT !.files = (pid :> data) @@ @,
                                !.at[c] = @ + 1,
                                !.pc[c] = "check",
                                !.wrote[c] = @ \cup {pid},
                                !.running = RunningAfter(c, gOut.at[c] + 1)]
    /\ UNCHANGED <<mainVars, gIn>>

SpecRace == InitRace /\ [][\E c \in Composers : RaceCheck(c) \/ RaceWrite(c)]_vars

=============================================================================
